---- MODULE Spec2Model ----
(***************************************************************************)
(* The virtual filesystem router of the vtsls service shims                *)
(* (packages/service/src/shims/fs.ts): the provider registry, the public   *)
(* readFile / writeFile / stat surface, the recursive directory creation   *)
(* protocol (mkdirp) run against a registered provider, and the local-disk *)
(* fallback.  Every await of the source is a step boundary, so any number  *)
(* of calls interleave at exactly the points where the code can suspend.   *)
(*                                                                         *)
(* Strings that the code takes apart (paths, error names) are sequences of *)
(* tokens: a path is a sequence over "/" and segment names, an error name  *)
(* the sequence of its space-separated words.                              *)
(***************************************************************************)
EXTENDS Integers, Sequences, FiniteSets, TLC

VARIABLES
  fsProvider,    \* _fsProvider: Map<scheme, {impl, isReadonly}> (a function on the registered schemes)
  handles,       \* the disposal handles returned so far, each with the options of its registration
  disposed,      \* registrations whose own handle has been invoked (history)
  nextReg,       \* identity of the next entry object created by _fsProvider.set
  ret,           \* what the last registerProvider invocation returned or threw
  store,         \* contents of each provider implementation
  disk,          \* contents of the local disk
  calls,         \* the router calls started so far, each with its position
  lastWrite,     \* the most recent writeFile call that completed (history)
  started,       \* number of operations begun
  backend,       \* how each provider implementation reports its failures
  bundles,       \* the service bundles returned by initializeShimServices
  disposals,     \* the dispose() invocations made on bundles so far (history)
  current,       \* the process-wide handles: for each, the initialize call whose object it holds
  built,         \* the initializeShimServices calls made, and how the last one ended
  thrown,        \* the FileSystemError constructed last
  resolved       \* the identifiers resolved to a local path so far, each with its path

routerVars ==
  <<fsProvider, handles, disposed, nextReg, ret, store, disk, calls, lastWrite, started, backend>>
lifecycleVars == <<bundles, disposals, current, built, thrown>>
resolverVars == <<resolved>>
vars == <<routerVars, lifecycleVars, resolverVars>>

-----------------------------------------------------------------------------
(* Bounds and universes *)

MaxOps == 3

\* iterations of mkdirp's walk followed per call (the walk of a target of
\* this model needs at most three)
MaxWalk == 4

Schemes == {"mem", "http"}
Impls == {"P1", "P2"}
Contents == {<<1>>, <<2>>}

\* options?.isReadonly as passed by the caller: options undefined or {},
\* false, true, or a MarkdownString (an object, truthy)
ReadonlyOptions == {"undefined", "false", "true", "markdown"}

Uri(scheme, authority, path) == [scheme |-> scheme, authority |-> authority, path |-> path]

Targets ==
  { Uri("mem", <<>>, <<"/", "a", "/", "b", "/", "f">>),
    Uri("mem", <<>>, <<"/", "a">>) }

-----------------------------------------------------------------------------
(* FileType, error codes and FileSystemError *)

FileTypeUnknown == 0
FileTypeFile == 1
FileTypeDirectory == 2
FileTypeSymbolicLink == 64

\* type & FileType.Directory (Directory is bit 1)
AndDirectory(type) == IF (type \div 2) % 2 = 1 THEN FileTypeDirectory ELSE 0

FileSystemProviderErrorCode ==
  [ FileExists |-> "EntryExists",
    FileNotFound |-> "EntryNotFound",
    FileNotADirectory |-> "EntryNotADirectory",
    FileIsADirectory |-> "EntryIsADirectory",
    FileExceedsStorageQuota |-> "EntryExceedsStorageQuota",
    FileTooLarge |-> "EntryTooLarge",
    FileWriteLocked |-> "EntryWriteLocked",
    NoPermissions |-> "NoPermissions",
    Unavailable |-> "Unavailable",
    Unknown |-> "Unknown" ]

NoError == [cls |-> "none", code |-> "undefined", name |-> <<>>, message |-> ""]

\* new Error(message): no code property, name "Error"
PlainError(message) ==
  [cls |-> "Error", code |-> "undefined", name |-> <<"Error">>, message |-> message]

\* error.name = code ? `${code} (FileSystemError)` : `FileSystemError`
markAsFileSystemProviderError(error, code) ==
  [error EXCEPT !.name = IF code # "" THEN <<code, "(FileSystemError)">>
                         ELSE <<"FileSystemError">>]

\* constructor(uriOrMessage, code = Unknown, terminator): this.code is the
\* NAME of the terminator function, the label is built from `code`
NewFileSystemError(message, code, terminator) ==
  markAsFileSystemProviderError(
    [cls |-> "FileSystemError",
     code |-> IF terminator = "undefined" THEN "Unknown" ELSE terminator,
     name |-> <<"Error">>, message |-> message],
    IF code = "undefined" THEN FileSystemProviderErrorCode.Unknown ELSE code)

FileSystemErrorFileExists(message) ==
  NewFileSystemError(message, FileSystemProviderErrorCode.FileExists, "FileExists")
FileSystemErrorFileNotFound(message) ==
  NewFileSystemError(message, FileSystemProviderErrorCode.FileNotFound, "FileNotFound")
FileSystemErrorFileNotADirectory(message) ==
  NewFileSystemError(message, FileSystemProviderErrorCode.FileNotADirectory, "FileNotADirectory")
FileSystemErrorFileIsADirectory(message) ==
  NewFileSystemError(message, FileSystemProviderErrorCode.FileIsADirectory, "FileIsADirectory")
FileSystemErrorNoPermissions(message) ==
  NewFileSystemError(message, FileSystemProviderErrorCode.NoPermissions, "NoPermissions")
FileSystemErrorUnavailable(message) ==
  NewFileSystemError(message, FileSystemProviderErrorCode.Unavailable, "Unavailable")

\* the static constructors of the class, by name
StaticConstructors ==
  {"FileExists", "FileNotFound", "FileNotADirectory", "FileIsADirectory",
   "NoPermissions", "Unavailable"}

\* FileSystemError[ctor](message)
Construct(ctor, message) ==
  CASE ctor = "FileExists" -> FileSystemErrorFileExists(message)
    [] ctor = "FileNotFound" -> FileSystemErrorFileNotFound(message)
    [] ctor = "FileNotADirectory" -> FileSystemErrorFileNotADirectory(message)
    [] ctor = "FileIsADirectory" -> FileSystemErrorFileIsADirectory(message)
    [] ctor = "NoPermissions" -> FileSystemErrorNoPermissions(message)
    [] ctor = "Unavailable" -> FileSystemErrorUnavailable(message)

\* the values of FileSystemProviderErrorCode
ProviderErrorCodes ==
  {FileSystemProviderErrorCode[k] : k \in DOMAIN FileSystemProviderErrorCode}

\* ((err?.name ?? '') as string).split(' ')[0]
NameHead(err) == IF err.name = <<>> THEN "" ELSE Head(err.name)

-----------------------------------------------------------------------------
(* The provider registry *)

NoProvider == [impl |-> "none", isReadonly |-> FALSE, reg |-> 0]
NoHandle == [reg |-> 0, scheme |-> "", readonly |-> FALSE]

\* the handle returned for registration `reg`; `readonly` remembers whether the
\* caller asked for a read-only registration (isReadonly: true or a MarkdownString)
NewHandle(reg, scheme, isReadonly) ==
  [reg |-> reg, scheme |-> scheme, readonly |-> isReadonly \in {"true", "markdown"}]

\* _fsProvider.has(scheme)
Has(scheme) == scheme \in DOMAIN fsProvider

\* _fsProvider.get(scheme)
Get(scheme) == IF Has(scheme) THEN fsProvider[scheme] ELSE NoProvider

\* !!options?.isReadonly
Truthy(isReadonly) == isReadonly \in {"true", "markdown"}

\* mutant: the read-only flag returned without the negation
isWritableFileSystem_Unnegated(scheme) ==
  IF ~Has(scheme) THEN "undefined"
  ELSE IF fsProvider[scheme].isReadonly THEN "true" ELSE "false"

\* isWritableFileSystem(scheme): boolean | undefined
isWritableFileSystem(scheme) ==
  IF ~Has(scheme) THEN "undefined"
  ELSE IF ~fsProvider[scheme].isReadonly THEN "true" ELSE "false"

\* _fsProvider.delete(scheme)
MapDelete(map, scheme) == [s \in DOMAIN map \ {scheme} |-> map[s]]

\* _fsProvider.set(scheme, entry)
MapSet(map, scheme, entry) ==
  [s \in DOMAIN map \cup {scheme} |-> IF s = scheme THEN entry ELSE map[s]]

\* mutant: no `has` check, a second registration silently overwrites the first
AddedProvider_Overwrites(map, scheme, impl, isReadonly, reg) ==
  MapSet(map, scheme, [impl |-> impl, isReadonly |-> Truthy(isReadonly), reg |-> reg])

\* the registry after _addFileSystemProvider(scheme, impl, options)
AddedProvider(map, scheme, impl, isReadonly, reg) ==
  IF scheme \in DOMAIN map THEN map
  ELSE MapSet(map, scheme, [impl |-> impl, isReadonly |-> Truthy(isReadonly), reg |-> reg])

\* the registry after the returned handle's dispose()
DisposedProvider(map, h) == MapDelete(map, h.scheme)

-----------------------------------------------------------------------------
(* Resource identifiers and paths *)

\* position of the last "/" of a path, 0 when it has none
LastSlash(p) ==
  IF \E i \in 1..Len(p) : p[i] = "/"
  THEN CHOOSE i \in 1..Len(p) : p[i] = "/" /\ \A j \in (i + 1)..Len(p) : p[j] # "/"
  ELSE 0

\* path.replace(/\/[^/]*$/, '')
StripLastSegment(p) == IF LastSlash(p) = 0 THEN p ELSE SubSeq(p, 1, LastSlash(p) - 1)

\* vscode-uri _referenceResolution, applied by URI.from
ReferenceResolution(scheme, path) ==
  IF scheme \in {"https", "http", "file"}
  THEN IF path = <<>> THEN <<"/">>
       ELSE IF path[1] # "/" THEN <<"/">> \o path ELSE path
  ELSE path

\* vscode-uri _validateUri: the path rules URI.from throws on
UriIsValid(u) ==
  \/ u.path = <<>>
  \/ IF u.authority # <<>> THEN u.path[1] = "/"
     ELSE ~(Len(u.path) >= 2 /\ u.path[1] = "/" /\ u.path[2] = "/")

\* URI.from({...u, path})
UriFrom(u, path) == Uri(u.scheme, u.authority, ReferenceResolution(u.scheme, path))

\* const dirname = (u: URI) => URI.from({...u, path: u.path.replace(/\/[^/]*$/, '')})
dirname(u) == UriFrom(u, StripLastSegment(u.path))

\* the base identifier the shim was created with (createFileSystemShim(extensionUri))
extensionUri == Uri("file", <<>>, <<"/", "ext">>)

StartsWith(p, prefix) == Len(p) >= Len(prefix) /\ SubSeq(p, 1, Len(prefix)) = prefix
EndsWith(p, suffix) ==
  Len(p) >= Len(suffix) /\ SubSeq(p, Len(p) - Len(suffix) + 1, Len(p)) = suffix

\* fromResource(uri): the local path of an identifier
fromResource(uri) ==
  IF /\ uri.scheme = extensionUri.scheme
     /\ uri.authority = extensionUri.authority
     /\ StartsWith(uri.path, extensionUri.path \o <<"/", "typescript", "/", "lib.">>)
     /\ EndsWith(uri.path, <<".d.ts">>)
  THEN uri.path
  ELSE <<"/", uri.scheme, "/">> \o uri.authority \o uri.path

\* a template literal or string concatenation: the characters of the parts in a row
RECURSIVE Rendered(_)
Rendered(parts) == IF parts = <<>> THEN "" ELSE Head(parts) \o Rendered(Tail(parts))

\* uri.fsPath (posix): //authority/path for a file URI with an authority, else the path
fsPath(uri) ==
  IF uri.authority # <<>> /\ Len(uri.path) > 1 /\ uri.scheme = "file"
  THEN <<"/", "/">> \o uri.authority \o uri.path
  ELSE uri.path

-----------------------------------------------------------------------------
(* File trees: a provider implementation's contents and the local disk.    *)
(* An entry is looked up by the segments of its path (empty segments are   *)
(* skipped, so "/a/b/" and "/a/b" name the same entry).                     *)

Segs(p) == SelectSeq(p, LAMBDA t : t # "/")
Front(s) == SubSeq(s, 1, Len(s) - 1)

NoEntry == [kind |-> "none", data |-> <<>>]
DirEntry == [kind |-> "dir", data |-> <<>>]
FileEntry(content) == [kind |-> "file", data |-> content]

Prefixes(s) == {SubSeq(s, 1, k) : k \in 0..Len(s)}
StoreKeys == UNION {Prefixes(Segs(t.path)) : t \in Targets}
DiskKeys == UNION {Prefixes(Segs(fromResource(t))) \cup Prefixes(Segs(fsPath(t))) : t \in Targets}

EmptyTree(keys) == [k \in keys |-> IF k = <<>> THEN DirEntry ELSE NoEntry]

Lookup(tree, p) == IF Segs(p) \in DOMAIN tree THEN tree[Segs(p)] ELSE NoEntry

TypeOf(entry) == IF entry.kind = "dir" THEN FileTypeDirectory ELSE FileTypeFile

Outcome(error, tree, type, bytes) ==
  [error |-> error, tree |-> tree, type |-> type, bytes |-> bytes]

\* FileSystemProvider.stat
ProviderStat(tree, p) ==
  IF Lookup(tree, p).kind = "none"
  THEN Outcome(FileSystemErrorFileNotFound("stat"), tree, 0, <<>>)
  ELSE Outcome(NoError, tree, TypeOf(Lookup(tree, p)), <<>>)

\* FileSystemProvider.createDirectory: FileExists for an existing entry
ProviderCreateDirectory(tree, p) ==
  IF Lookup(tree, p).kind # "none"
  THEN Outcome(FileSystemErrorFileExists("createDirectory"), tree, 0, <<>>)
  ELSE IF Segs(p) \notin DOMAIN tree \/ tree[Front(Segs(p))].kind # "dir"
  THEN Outcome(FileSystemErrorFileNotFound("createDirectory"), tree, 0, <<>>)
  ELSE Outcome(NoError, [tree EXCEPT ![Segs(p)] = DirEntry], 0, <<>>)

\* FileSystemProvider.writeFile(uri, content, {create: true, overwrite: true})
ProviderWriteFile(tree, p, content) ==
  IF Lookup(tree, p).kind = "dir"
  THEN Outcome(FileSystemErrorFileIsADirectory("writeFile"), tree, 0, <<>>)
  ELSE IF Segs(p) \notin DOMAIN tree \/ tree[Front(Segs(p))].kind # "dir"
  THEN Outcome(FileSystemErrorFileNotFound("writeFile"), tree, 0, <<>>)
  ELSE Outcome(NoError, [tree EXCEPT ![Segs(p)] = FileEntry(content)], 0, <<>>)

\* FileSystemProvider.readFile
ProviderReadFile(tree, p) ==
  IF Lookup(tree, p).kind = "none"
  THEN Outcome(FileSystemErrorFileNotFound("readFile"), tree, 0, <<>>)
  ELSE IF Lookup(tree, p).kind = "dir"
  THEN Outcome(FileSystemErrorFileIsADirectory("readFile"), tree, 0, <<>>)
  ELSE Outcome(NoError, tree, 0, Lookup(tree, p).data)

\* a node fs failure: an Error with an errno code
NodeError(code) == [cls |-> "Error", code |-> code, name |-> <<"Error">>, message |-> "fs"]

\* fsPromises.mkdir(p, {recursive: true})
fsMkdir(tree, p) ==
  IF \E k \in Prefixes(Segs(p)) : k \in DOMAIN tree /\ tree[k].kind = "file"
  THEN Outcome(NodeError(IF Lookup(tree, p).kind = "file" THEN "EEXIST" ELSE "ENOTDIR"),
               tree, 0, <<>>)
  ELSE Outcome(NoError,
               [k \in DOMAIN tree |-> IF k \in Prefixes(Segs(p)) THEN DirEntry ELSE tree[k]],
               0, <<>>)

\* fsPromises.writeFile(p, content)
fsWriteFile(tree, p, content) ==
  IF Lookup(tree, p).kind = "dir" THEN Outcome(NodeError("EISDIR"), tree, 0, <<>>)
  ELSE IF Segs(p) \notin DOMAIN tree \/ tree[Front(Segs(p))].kind # "dir"
  THEN Outcome(NodeError("ENOENT"), tree, 0, <<>>)
  ELSE Outcome(NoError, [tree EXCEPT ![Segs(p)] = FileEntry(content)], 0, <<>>)

\* fsPromises.readFile(p)
fsReadFile(tree, p) ==
  IF Lookup(tree, p).kind = "none" THEN Outcome(NodeError("ENOENT"), tree, 0, <<>>)
  ELSE IF Lookup(tree, p).kind = "dir" THEN Outcome(NodeError("EISDIR"), tree, 0, <<>>)
  ELSE Outcome(NoError, tree, 0, Lookup(tree, p).data)

\* toType(entry, symbolicLink): symbolicLink is "undefined", "live" or "dangling"
toType(entry, symbolicLink) ==
  (IF symbolicLink = "dangling" THEN FileTypeUnknown
   ELSE IF entry.kind = "file" THEN FileTypeFile
   ELSE IF entry.kind = "dir" THEN FileTypeDirectory
   ELSE FileTypeUnknown)
  + (IF symbolicLink # "undefined" THEN FileTypeSymbolicLink ELSE 0)

\* symLinkStat(path) followed by toType: the entries of this disk are plain
\* files and directories, so lstat answers and no link is followed
symLinkStat(tree, p) ==
  IF Lookup(tree, p).kind = "none" THEN Outcome(NodeError("ENOENT"), tree, 0, <<>>)
  ELSE Outcome(NoError, tree, toType(Lookup(tree, p), "undefined"), <<>>)

\* a backend that keeps a root directory and raises the errors of the
\* FileSystemError class
CanonicalBackend == [errors |-> "canonical", rooted |-> TRUE, permits |-> TRUE]

\* backends that do not share the construction path of FileSystemError: two
\* raise plain errors carrying a code only (the code field of the class,
\* 'FileNotFound', or the FileSystemProviderErrorCode value, 'EntryNotFound'),
\* one raises errors that kept the label only; and a canonical backend that
\* has no root directory
ForeignBackends ==
  { [errors |-> "code", rooted |-> TRUE, permits |-> TRUE],
    [errors |-> "providerCode", rooted |-> TRUE, permits |-> TRUE],
    [errors |-> "label", rooted |-> TRUE, permits |-> TRUE],
    [errors |-> "canonical", rooted |-> FALSE, permits |-> TRUE] }

\* a canonical backend that permits no directory to be created
DenyingBackend == [errors |-> "canonical", rooted |-> TRUE, permits |-> FALSE]

\* the error object a backend of this profile raises for `error`
Reported(profile, error) ==
  CASE profile.errors = "canonical" -> error
    [] profile.errors = "code" ->
         [cls |-> "Error", code |-> error.code, name |-> <<"Error">>, message |-> error.message]
    [] profile.errors = "providerCode" ->
         [cls |-> "Error", code |-> Head(error.name), name |-> <<"Error">>,
          message |-> error.message]
    [] profile.errors = "label" ->
         [cls |-> "Error", code |-> "undefined", name |-> error.name, message |-> error.message]

\* the answer of backend `impl`, its failure raised in the backend's own way
Answered(impl, out) ==
  IF out.error = NoError THEN out
  ELSE [out EXCEPT !.error = Reported(backend[impl], out.error)]

\* createDirectory of backend `impl`: refused when the backend permits no
\* directory creation
BackendCreateDirectory(impl, p) ==
  Answered(impl,
           IF backend[impl].permits THEN ProviderCreateDirectory(store[impl], p)
           ELSE Outcome(FileSystemErrorNoPermissions("createDirectory"), store[impl], 0, <<>>))

\* the contents a backend starts with
InitialTree(profile) ==
  IF profile.rooted THEN EmptyTree(StoreKeys) ELSE [k \in StoreKeys |-> NoEntry]

-----------------------------------------------------------------------------
(* Router calls *)

NoUri == Uri("", <<>>, <<>>)
NoResult == [kind |-> "none", bytes |-> <<>>, type |-> 0, error |-> NoError]
Threw(error) == [kind |-> "error", bytes |-> <<>>, type |-> 0, error |-> error]
Returned(kind, bytes, type) == [kind |-> kind, bytes |-> bytes, type |-> type, error |-> NoError]

NoWrite == [uri |-> NoUri, bytes |-> <<>>, reg |-> 0]

\* one invocation of a provider method or of a node fs function
Invoked(fn, on, path, out) ==
  [fn |-> fn, on |-> on, path |-> path, error |-> out.error, type |-> out.type]

NewCall(op, uri, content) ==
  [op |-> op, uri |-> uri, content |-> content, pc |-> "start",
   provider |-> NoProvider, directory |-> NoUri, toCreate |-> <<>>, i |-> 0,
   result |-> NoResult, log |-> <<>>,
   \* history, for a readFile: the last write completed before the call began,
   \* reset when another write completes before the read returns
   seen |-> NoWrite,
   \* history: the backend write was made after the call's registration was removed
   orphaned |-> FALSE]

Fail(call, error) == [call EXCEPT !.pc = "failed", !.result = Threw(error)]

\* withProvider(scheme) throws for a scheme that has no registration
withProviderThrows(scheme) == ~Has(scheme)

\* withProvider(scheme): the entry of the scheme
withProvider(scheme) == Get(scheme)

UnsupportedScheme == PlainError("Unsupported URI scheme")

\* mutant: if (provider), the read-only flag left to the backend
WritesThroughProvider_IgnoresReadonly(provider) == provider.reg # 0

\* writeFile line 249: if (provider && !provider.isReadonly)
WritesThroughProvider(provider) == provider.reg # 0 /\ ~provider.isReadonly

\* mkdirp line 195: the stat failure means "missing"
IsFileNotFound(err) ==
  \/ err.code = FileSystemProviderErrorCode.FileNotFound
  \/ NameHead(err) = FileSystemProviderErrorCode.FileNotFound

\* mutant: only err.code is compared with 'EntryExists'
IsFileExists_CodeOnly(err) == err.code = FileSystemProviderErrorCode.FileExists

\* mkdirp line 208: the createDirectory failure is tolerated
IsFileExists(err) ==
  \/ err.code = FileSystemProviderErrorCode.FileExists
  \/ NameHead(err) = FileSystemProviderErrorCode.FileExists

\* mutant: only an entry of unknown type stops the walk with an error
NotADirectory_UnknownOnly(type) == type = FileTypeUnknown

\* mkdirp line 189: the stat result is not a directory
NotADirectory(type) == AndDirectory(type) = 0

\* mkdirp line 204: the index the creation loop starts at (1-based; 0: nothing to create)
FirstToCreate(toCreate) == Len(toCreate)

\* mkdirp line 204: the index after i (i--)
NextToCreate(i) == i - 1

\* the position after the upward walk ended (break, or pat = '/')
AfterWalk(call) ==
  [call EXCEPT !.i = FirstToCreate(call.toCreate),
               !.pc = IF FirstToCreate(call.toCreate) >= 1 THEN "create" ELSE "write"]

\* mkdirp lines 180-186: up to the first await
EnterMkdirp(call) ==
  IF ~UriIsValid(dirname(call.uri)) THEN Fail(call, PlainError("[UriError]"))
  ELSE IF call.uri.path # <<"/">>
  THEN [call EXCEPT !.directory = dirname(call.uri), !.pc = "walk"]
  ELSE AfterWalk([call EXCEPT !.directory = dirname(call.uri)])

\* mutant: toCreate.unshift instead of toCreate.push
WalkCatch_Unshift(call, err) ==
  IF ~IsFileNotFound(err) THEN Fail(call, err)
  ELSE IF ~UriIsValid(UriFrom(call.directory, call.directory.path \o <<"/">>))
          \/ ~UriIsValid(dirname(call.directory))
  THEN Fail(call, PlainError("[UriError]"))
  ELSE [call EXCEPT
          !.toCreate = <<UriFrom(call.directory, call.directory.path \o <<"/">>)>> \o @,
          !.directory = dirname(call.directory)]

\* mkdirp lines 193-201: the catch clause of the walk
WalkCatch(call, err) ==
  IF ~IsFileNotFound(err) THEN Fail(call, err)
  ELSE IF ~UriIsValid(UriFrom(call.directory, call.directory.path \o <<"/">>))
          \/ ~UriIsValid(dirname(call.directory))
  THEN Fail(call, PlainError("[UriError]"))
  ELSE [call EXCEPT
          !.toCreate = Append(@, UriFrom(call.directory, call.directory.path \o <<"/">>)),
          !.directory = dirname(call.directory)]

\* mkdirp lines 187-201: one iteration of the walk, given the answer of provider.stat
WalkIteration(call, out) ==
  IF out.error # NoError THEN WalkCatch(call, out.error)
  ELSE IF NotADirectory(out.type)
  THEN WalkCatch(call, FileSystemErrorFileExists("Unable to create folder"))
  ELSE AfterWalk(call)

\* mutant: the catch of the creation loop swallows every error
CreateIteration_Swallows(call, out) ==
  [call EXCEPT !.i = NextToCreate(call.i),
               !.pc = IF NextToCreate(call.i) >= 1 THEN "create" ELSE "write"]

\* mkdirp lines 205-212: one iteration of the creation loop, given the answer
CreateIteration(call, out) ==
  IF out.error # NoError /\ ~IsFileExists(out.error) THEN Fail(call, out.error)
  ELSE [call EXCEPT !.i = NextToCreate(call.i),
                    !.pc = IF NextToCreate(call.i) >= 1 THEN "create" ELSE "write"]

\* the registration the call started with is the one the registry holds now
StillRegistered(call) ==
  Has(call.uri.scheme) /\ Get(call.uri.scheme).reg = call.provider.reg

\* the invocation added to the call's history; the call remembers whether
\* its backend writeFile was invoked after its registration had left the registry
Logged(call, entry) ==
  [call EXCEPT !.log = Append(@, entry),
               !.orphaned = @ \/ (entry.fn = "writeFile" /\ ~StillRegistered(call))]

\* mutant: the backend is looked up in the registry again at every step
ImplOf_LooksUpAgain(call) ==
  IF Has(call.uri.scheme) THEN Get(call.uri.scheme).impl ELSE call.provider.impl

\* the backend a suspended call goes on with: `provider`, the constant bound
\* when the call began (mkdirp receives provider.impl as its argument)
ImplOf(call) == call.provider.impl

Begin(call) ==
  /\ started < MaxOps
  /\ started' = started + 1
  /\ calls' = Append(calls, call)

\* the exported `let` bindings initializeShimServices assigns
HandleNames == {"languages", "commands", "workspace", "window", "env", "chat", "FileSystemError"}

\* no initializeShimServices call made yet
NoBundles ==
  /\ bundles = <<>>
  /\ disposals = <<>>
  /\ current = [h \in HandleNames |-> 0]
  /\ built = [calls |-> 0, raised |-> "none"]
  /\ thrown = NoError

InitWith(profiles) ==
  /\ fsProvider = <<>>
  /\ handles = {}
  /\ disposed = {}
  /\ nextReg = 1
  /\ ret = [op |-> "none", scheme |-> "", handle |-> NoHandle, error |-> NoError]
  /\ store = [p \in Impls |-> InitialTree(profiles[p])]
  /\ disk = EmptyTree(DiskKeys)
  /\ calls = <<>>
  /\ lastWrite = NoWrite
  /\ started = 0
  /\ backend = profiles
  /\ NoBundles
  /\ resolved = {}

\* createFileSystemShim(extensionUri), every backend canonical
Init == InitWith([p \in Impls |-> CanonicalBackend])

\* createFileSystemShim(extensionUri), the second backend a foreign one
InitForeign ==
  \E profile \in ForeignBackends :
    InitWith([p \in Impls |-> IF p = "P1" THEN CanonicalBackend ELSE profile])

\* createFileSystemShim(extensionUri), the second backend a denying one
InitDenying ==
  InitWith([p \in Impls |-> IF p = "P1" THEN CanonicalBackend ELSE DenyingBackend])

\* _addFileSystemProvider(scheme, provider, options)
RegisterProvider(scheme, impl, isReadonly) ==
  /\ started < MaxOps
  /\ started' = started + 1
  /\ fsProvider' = AddedProvider(fsProvider, scheme, impl, isReadonly, nextReg)
  /\ IF Has(scheme)
     THEN /\ ret' = [op |-> "register", scheme |-> scheme, handle |-> NoHandle,
                     error |-> PlainError("A provider with scheme is already registered")]
          /\ UNCHANGED <<handles, nextReg>>
     ELSE /\ ret' = [op |-> "register", scheme |-> scheme,
                     handle |-> NewHandle(nextReg, scheme, isReadonly), error |-> NoError]
          /\ handles' = handles \cup {NewHandle(nextReg, scheme, isReadonly)}
          /\ nextReg' = nextReg + 1
  /\ UNCHANGED <<backend, lifecycleVars, resolverVars, disposed, store, disk, calls, lastWrite>>

\* the dispose() of a handle returned by _addFileSystemProvider
Dispose(h) ==
  /\ fsProvider' = DisposedProvider(fsProvider, h)
  /\ disposed' = disposed \cup {h.reg}
  /\ UNCHANGED <<backend, lifecycleVars, resolverVars, handles, nextReg, ret, store, disk, calls, lastWrite, started>>

\* readFile(uri) up to its first await
ReadFileStart(uri) ==
  /\ Begin(IF withProviderThrows(uri.scheme)
           THEN Fail(NewCall("readFile", uri, <<>>), UnsupportedScheme)
           ELSE [NewCall("readFile", uri, <<>>) EXCEPT
                   !.provider = withProvider(uri.scheme), !.pc = "read",
                   !.seen = lastWrite])
  /\ UNCHANGED <<backend, lifecycleVars, resolverVars, fsProvider, handles, disposed, nextReg, ret, store, disk, lastWrite>>

\* readFile: the awaited read returns
ReadFileReturn(c) ==
  /\ calls[c].pc = "read"
  /\ LET call == calls[c]
         out == IF call.provider.reg # 0
                THEN Answered(ImplOf(call),
                              ProviderReadFile(store[ImplOf(call)], call.uri.path))
                ELSE fsReadFile(disk, fromResource(call.uri))
         entry == IF call.provider.reg # 0
                  THEN Invoked("readFile", ImplOf(call), call.uri.path, out)
                  ELSE Invoked("fs.readFile", "disk", fromResource(call.uri), out)
         logged == [Logged(call, entry) EXCEPT
                      !.seen = IF lastWrite = call.seen THEN call.seen ELSE NoWrite]
     IN calls' = [calls EXCEPT ![c] =
                    IF out.error # NoError THEN Fail(logged, out.error)
                    ELSE [logged EXCEPT !.pc = "done",
                                        !.result = Returned("bytes", out.bytes, 0)]]
  /\ UNCHANGED <<backend, lifecycleVars, resolverVars, fsProvider, handles, disposed, nextReg, ret, store, disk, lastWrite, started>>

\* stat(uri) up to its first await
StatStart(uri) ==
  /\ Begin(IF withProviderThrows(uri.scheme)
           THEN Fail(NewCall("stat", uri, <<>>), UnsupportedScheme)
           ELSE [NewCall("stat", uri, <<>>) EXCEPT
                   !.provider = withProvider(uri.scheme), !.pc = "stat"])
  /\ UNCHANGED <<backend, lifecycleVars, resolverVars, fsProvider, handles, disposed, nextReg, ret, store, disk, lastWrite>>

\* stat: the awaited stat returns
StatReturn(c) ==
  /\ calls[c].pc = "stat"
  /\ LET call == calls[c]
         out == IF call.provider.reg # 0
                THEN Answered(ImplOf(call),
                              ProviderStat(store[ImplOf(call)], call.uri.path))
                ELSE symLinkStat(disk, fsPath(call.uri))
         entry == IF call.provider.reg # 0
                  THEN Invoked("stat", ImplOf(call), call.uri.path, out)
                  ELSE Invoked("fs.lstat", "disk", fsPath(call.uri), out)
     IN calls' = [calls EXCEPT ![c] =
                    IF out.error # NoError THEN Fail(Logged(call, entry), out.error)
                    ELSE [Logged(call, entry) EXCEPT !.pc = "done",
                                                     !.result = Returned("stat", <<>>, out.type)]]
  /\ UNCHANGED <<backend, lifecycleVars, resolverVars, fsProvider, handles, disposed, nextReg, ret, store, disk, lastWrite, started>>

\* writeFile(uri, content) up to its first await
WriteFileStart(uri, content) ==
  /\ Begin(IF withProviderThrows(uri.scheme)
           THEN Fail(NewCall("writeFile", uri, content), UnsupportedScheme)
           ELSE IF WritesThroughProvider(withProvider(uri.scheme))
           THEN EnterMkdirp([NewCall("writeFile", uri, content) EXCEPT
                               !.provider = withProvider(uri.scheme)])
           ELSE [NewCall("writeFile", uri, content) EXCEPT
                   !.provider = withProvider(uri.scheme), !.pc = "fs.mkdir"])
  /\ UNCHANGED <<backend, lifecycleVars, resolverVars, fsProvider, handles, disposed, nextReg, ret, store, disk, lastWrite>>

\* mkdirp: `await provider.stat(directory)` returns and the walk goes on to its next await
MkdirpStat(c) ==
  /\ calls[c].pc = "walk"
  /\ Len(calls[c].toCreate) < MaxWalk
  /\ LET call == calls[c]
         out == Answered(ImplOf(call),
                         ProviderStat(store[ImplOf(call)], call.directory.path))
     IN calls' = [calls EXCEPT ![c] =
                    WalkIteration(
                      Logged(call, Invoked("stat", ImplOf(call), call.directory.path, out)),
                      out)]
  /\ UNCHANGED <<backend, lifecycleVars, resolverVars, fsProvider, handles, disposed, nextReg, ret, store, disk, lastWrite, started>>

\* mkdirp: `await provider.createDirectory(toCreate[i])` returns
MkdirpCreate(c) ==
  /\ calls[c].pc = "create"
  /\ LET call == calls[c]
         dir == call.toCreate[call.i]
         out == BackendCreateDirectory(ImplOf(call), dir.path)
     IN /\ store' = [store EXCEPT ![ImplOf(call)] = out.tree]
        /\ calls' = [calls EXCEPT ![c] =
                       CreateIteration(
                         Logged(call, Invoked("createDirectory", ImplOf(call), dir.path, out)),
                         out)]
  /\ UNCHANGED <<backend, lifecycleVars, resolverVars, fsProvider, handles, disposed, nextReg, ret, disk, lastWrite, started>>

\* writeFile: `await provider.impl.writeFile(uri, content, ...)` returns
ProviderWrite(c) ==
  /\ calls[c].pc = "write"
  /\ LET call == calls[c]
         out == Answered(ImplOf(call),
                         ProviderWriteFile(store[ImplOf(call)], call.uri.path, call.content))
         logged == Logged(call, Invoked("writeFile", ImplOf(call), call.uri.path, out))
     IN /\ store' = [store EXCEPT ![ImplOf(call)] = out.tree]
        /\ IF out.error # NoError
           THEN /\ calls' = [calls EXCEPT ![c] = Fail(logged, out.error)]
                /\ UNCHANGED lastWrite
           ELSE /\ calls' = [calls EXCEPT ![c] =
                               [logged EXCEPT !.pc = "done", !.result = Returned("void", <<>>, 0)]]
                /\ lastWrite' = [uri |-> call.uri, bytes |-> call.content,
                                 reg |-> call.provider.reg]
  /\ UNCHANGED <<backend, lifecycleVars, resolverVars, fsProvider, handles, disposed, nextReg, ret, disk, started>>

\* writeFile: `await fsPromises.mkdir(dirname, {recursive: true})` returns
LocalMkdir(c) ==
  /\ calls[c].pc = "fs.mkdir"
  /\ LET call == calls[c]
         dir == StripLastSegment(fromResource(call.uri))
         out == fsMkdir(disk, dir)
         logged == Logged(call, Invoked("fs.mkdir", "disk", dir, out))
     IN /\ disk' = out.tree
        /\ calls' = [calls EXCEPT ![c] =
                       IF out.error # NoError THEN Fail(logged, out.error)
                       ELSE [logged EXCEPT !.pc = "fs.writeFile"]]
  /\ UNCHANGED <<backend, lifecycleVars, resolverVars, fsProvider, handles, disposed, nextReg, ret, store, lastWrite, started>>

\* writeFile: `await fsPromises.writeFile(pat, content)` returns
LocalWrite(c) ==
  /\ calls[c].pc = "fs.writeFile"
  /\ LET call == calls[c]
         out == fsWriteFile(disk, fromResource(call.uri), call.content)
         logged == Logged(call, Invoked("fs.writeFile", "disk", fromResource(call.uri), out))
     IN /\ disk' = out.tree
        /\ IF out.error # NoError
           THEN /\ calls' = [calls EXCEPT ![c] = Fail(logged, out.error)]
                /\ UNCHANGED lastWrite
           ELSE /\ calls' = [calls EXCEPT ![c] =
                               [logged EXCEPT !.pc = "done", !.result = Returned("void", <<>>, 0)]]
                /\ lastWrite' = [uri |-> call.uri, bytes |-> call.content,
                                 reg |-> call.provider.reg]
  /\ UNCHANGED <<backend, lifecycleVars, resolverVars, fsProvider, handles, disposed, nextReg, ret, store, started>>

Next ==
  \/ \E scheme \in Schemes, impl \in Impls, isReadonly \in ReadonlyOptions :
       RegisterProvider(scheme, impl, isReadonly)
  \/ \E h \in handles : Dispose(h)
  \/ \E uri \in Targets : ReadFileStart(uri)
  \/ \E uri \in Targets : StatStart(uri)
  \/ \E uri \in Targets, content \in Contents : WriteFileStart(uri, content)
  \/ \E c \in DOMAIN calls : ReadFileReturn(c)
  \/ \E c \in DOMAIN calls : StatReturn(c)
  \/ \E c \in DOMAIN calls : MkdirpStat(c)
  \/ \E c \in DOMAIN calls : MkdirpCreate(c)
  \/ \E c \in DOMAIN calls : ProviderWrite(c)
  \/ \E c \in DOMAIN calls : LocalMkdir(c)
  \/ \E c \in DOMAIN calls : LocalWrite(c)

Spec == Init /\ [][Next]_vars

\* the router over backends one of which is foreign
SpecForeign == InitForeign /\ [][Next]_vars

\* the router over backends one of which permits no directory creation
SpecDenying == InitDenying /\ [][Next]_vars

-----------------------------------------------------------------------------
(* Service bundles: initializeShimServices and the dispose() it returns.    *)
(* Every service, the context and its subscriptions array, and the router   *)
(* owned by the workspace service are created afresh by each call.          *)

MaxBundles == 2
MaxSubscriptions == 2
MaxDisposals == 2

\* process.env.BROWSER_ENV set or not
Modes == {"browser", "desktop"}

\* the disposables extension code may push on context.subscriptions
Disposables == {"d1", "d2"}

\* dispose lines 92-96: the services disposed, in the order of the statements
ServiceSteps == <<"configuration", "languageFeatures", "commands", "workspace", "window">>

FetchSchemes == <<"http", "https">>

StepNames == {ServiceSteps[i] : i \in DOMAIN ServiceSteps} \cup Disposables
               \cup {FetchSchemes[i] : i \in DOMAIN FetchSchemes}

\* `options` of the two registerFileSystemProvider calls: {} has no isReadonly
FetchOptionsIsReadonly == "undefined"

\* lines 50-63: the bundle before the BROWSER_ENV block
NewBundle(mode) ==
  [ mode |-> mode,
    subscriptions |-> <<>>,          \* createContextShim: subscriptions: []
    FsProviderDisposables |-> <<>>,
    router |-> <<>>,                 \* the workspace service's createFileSystemShim
    attempts |-> [n \in StepNames |-> 0] ]   \* dispose() invocations received, per object

\* FsProviderDisposables.push(workspaceService.registerFileSystemProvider(scheme, fetch, {}))
RegisterFetch(bundle, scheme) ==
  LET reg == Len(bundle.FsProviderDisposables) + 1
  IN [bundle EXCEPT
        !.router = AddedProvider(@, scheme, "fetch", FetchOptionsIsReadonly, reg),
        !.FsProviderDisposables = Append(@, NewHandle(reg, scheme, FetchOptionsIsReadonly))]

\* lines 65-89: if (process.env.BROWSER_ENV) register http, then https
Constructed(mode) ==
  IF mode = "browser"
  THEN RegisterFetch(RegisterFetch(NewBundle(mode), FetchSchemes[1]), FetchSchemes[2])
  ELSE NewBundle(mode)

\* mutant: the provider registrations are disposed before the subscriptions
DisposeSteps_ProvidersFirst(bundle) ==
  ServiceSteps
    \o [i \in DOMAIN bundle.FsProviderDisposables |-> bundle.FsProviderDisposables[i].scheme]
    \o bundle.subscriptions

\* dispose lines 92-100: the steps in the order the closure performs them
DisposeSteps(bundle) ==
  ServiceSteps
    \o bundle.subscriptions
    \o [i \in DOMAIN bundle.FsProviderDisposables |-> bundle.FsProviderDisposables[i].scheme]

\* the steps performed when the steps in `faulty` throw: no statement of the
\* closure is inside a try, so the first exception ends the closure
Performed(listed, faulty) ==
  IF \E i \in DOMAIN listed : listed[i] \in faulty
  THEN SubSeq(listed, 1, CHOOSE i \in DOMAIN listed :
                           listed[i] \in faulty /\ \A j \in 1..(i - 1) : listed[j] \notin faulty)
  ELSE listed

\* the exception that left the closure, "none" when it returned
Raised(listed, faulty) ==
  IF Performed(listed, faulty) # <<>> /\ Performed(listed, faulty)[Len(Performed(listed, faulty))] \in faulty
  THEN Performed(listed, faulty)[Len(Performed(listed, faulty))]
  ELSE "none"

\* one d.dispose(): the object counts the invocation; a provider handle
\* removes its scheme from the router (fs.ts: _fsProvider.delete(scheme))
DisposeOne(bundle, step) ==
  LET counted == [bundle EXCEPT !.attempts[step] = @ + 1]
  IN IF \E i \in DOMAIN bundle.FsProviderDisposables : bundle.FsProviderDisposables[i].scheme = step
     THEN [counted EXCEPT !.router =
             DisposedProvider(@, CHOOSE h \in {bundle.FsProviderDisposables[i] :
                                                 i \in DOMAIN bundle.FsProviderDisposables} :
                                   h.scheme = step)]
     ELSE counted

RECURSIVE DisposeAll(_, _)
DisposeAll(bundle, steps) ==
  IF steps = <<>> THEN bundle
  ELSE DisposeAll(DisposeOne(bundle, Head(steps)), Tail(steps))

\* mutant: the closure reaches the services through the process-wide handles
ClosureOf_ProcessWide(b) == current.workspace

\* the bundle whose services, context and registrations dispose() of bundle b
\* refers to: the constants of the initializeShimServices call that built it
ClosureOf(b) == b

\* lines 50-61: the constructors, in the order of the statements
Constructors ==
  <<"configuration", "workspace", "commands", "diagnostics", "languageFeatures",
    "window", "context">>

\* the statements of initializeShimServices that can throw: a constructor, and
\* in browser mode a provider registration
FailurePoints(mode) ==
  {Constructors[i] : i \in DOMAIN Constructors}
    \cup (IF mode = "browser" THEN {FetchSchemes[i] : i \in DOMAIN FetchSchemes} ELSE {})

\* mutant: the chat handle is assigned only by the first call
Assigned_ChatOnce(before, n) ==
  [h \in HandleNames |-> IF h = "chat" /\ before[h] # 0 THEN before[h] ELSE n]

\* lines 103-114: every handle is assigned the object built by this call
Assigned(before, n) == [h \in HandleNames |-> n]

\* mutant: each service is published as soon as it is built, so a later
\* failure finds the handles of the services built before it reassigned
Abandoned_PublishedEarly(before, n, failAt) ==
  [h \in HandleNames |->
     IF \/ h = "workspace" /\ failAt \notin {"configuration", "workspace"}
        \/ h = "commands" /\ failAt \notin {"configuration", "workspace", "commands"}
     THEN n ELSE before[h]]

\* the handles (as `before` the call) after a call that threw at `failAt`: every statement that can
\* throw (lines 50-88) precedes the first assignment (line 103)
Abandoned(before, n, failAt) == before

\* initializeShimServices(initOptions, delegate, defaultConfig, defaultNls);
\* failAt is the statement that throws, "none" when the call returns
Initialize(mode, failAt) ==
  /\ built.calls < MaxBundles
  /\ built' = [calls |-> built.calls + 1, raised |-> failAt]
  /\ IF failAt = "none"
     THEN /\ bundles' = Append(bundles, Constructed(mode))
          /\ current' = Assigned(current, Len(bundles) + 1)
     ELSE /\ bundles' = bundles
          /\ current' = Abandoned(current, Len(bundles) + 1, failAt)
  /\ UNCHANGED <<routerVars, resolverVars, disposals, thrown>>

\* extension code: context.subscriptions.push(d)
Subscribe(b, d) ==
  /\ Len(bundles[b].subscriptions) < MaxSubscriptions
  /\ \A i \in DOMAIN bundles[b].subscriptions : bundles[b].subscriptions[i] # d
  /\ bundles' = [bundles EXCEPT ![b].subscriptions = Append(@, d)]
  /\ UNCHANGED <<routerVars, resolverVars, disposals, current, built, thrown>>

\* bundle.dispose(), with the dispose() of the objects in `faulty` throwing
DisposeBundle(b, faulty) ==
  /\ Len(disposals) < MaxDisposals
  /\ LET own == ClosureOf(b)
         listed == DisposeSteps(bundles[own])
     IN /\ bundles' = [bundles EXCEPT ![own] = DisposeAll(@, Performed(listed, faulty))]
        /\ disposals' = Append(disposals,
                               [bundle |-> b,
                                performed |-> Performed(listed, faulty),
                                raised |-> Raised(listed, faulty),
                                subscriptions |-> bundles[b].subscriptions,
                                registrations |-> bundles[b].FsProviderDisposables])
  /\ UNCHANGED <<routerVars, resolverVars, current, built, thrown>>

\* the objects whose dispose() can throw: services and subscriptions (a
\* provider handle's dispose is a Map.delete)
MayThrow == {ServiceSteps[i] : i \in DOMAIN ServiceSteps} \cup Disposables

NextLifecycle ==
  \/ \E mode \in Modes : \E failAt \in FailurePoints(mode) \cup {"none"} : Initialize(mode, failAt)
  \/ \E b \in DOMAIN bundles, d \in Disposables : Subscribe(b, d)
  \/ \E b \in DOMAIN bundles, faulty \in SUBSET MayThrow : DisposeBundle(b, faulty)

SpecLifecycle == Init /\ [][NextLifecycle]_vars

-----------------------------------------------------------------------------
(* FileSystemError as handed out by the shims: initializeShimServices       *)
(* assigns the class to the process-wide FileSystemError handle, and        *)
(* extension code builds errors with its constructors.                      *)

Messages == {"x", "y"}

\* FileSystemError.FileExists(message) ... FileSystemError.Unavailable(message)
ThrowStatic(ctor, message) ==
  /\ current.FileSystemError # 0
  /\ thrown' = Construct(ctor, message)
  /\ UNCHANGED <<routerVars, resolverVars, bundles, disposals, current, built>>

\* new FileSystemError(message, code): no terminator; code may be left out
ThrowNew(message, code) ==
  /\ current.FileSystemError # 0
  /\ thrown' = NewFileSystemError(message, code, "undefined")
  /\ UNCHANGED <<routerVars, resolverVars, bundles, disposals, current, built>>

NextErrors ==
  \/ \E mode \in Modes : Initialize(mode, "none")
  \/ \E ctor \in StaticConstructors, message \in Messages : ThrowStatic(ctor, message)
  \/ \E message \in Messages, code \in ProviderErrorCodes \cup {"undefined"} :
       ThrowNew(message, code)

SpecErrors == Init /\ [][NextErrors]_vars

-----------------------------------------------------------------------------
(* Properties *)

WriteCalls == {c \in DOMAIN calls : calls[c].op = "writeFile"}
ReadCalls == {c \in DOMAIN calls : calls[c].op = "readFile"}
Finished(c) == calls[c].pc \in {"done", "failed"}

\* the call was started while its scheme was registered writable / read-only / not at all
ViaWritable(c) == calls[c].provider.reg # 0 /\ ~calls[c].provider.isReadonly
ViaReadonly(c) == calls[c].provider.reg # 0 /\ calls[c].provider.isReadonly
Unregistered(c) == calls[c].provider.reg = 0

\* the registration a handle was returned for is the one the registry holds
Current(h) == h.scheme \in DOMAIN fsProvider /\ fsProvider[h.scheme].reg = h.reg

\* positions of the invocations of `fn` in the log of call c
At(c, fn) == {k \in DOMAIN calls[c].log : calls[c].log[k].fn = fn}
OnProvider(c) == {k \in DOMAIN calls[c].log : calls[c].log[k].on \in Impls}

\* C1: isWritable(scheme) is the negation of the read-only flag the scheme's
\* current registration was made with, and undefined ('no opinion') when the
\* scheme has no registration, after any sequence of registrations and disposals.
C1_IsWritableNegatesReadonly ==
  \A s \in Schemes :
    IF \E h \in handles : h.scheme = s /\ Current(h)
    THEN \A h \in handles :
           (h.scheme = s /\ Current(h)) =>
             isWritableFileSystem(s) = (IF h.readonly THEN "false" ELSE "true")
    ELSE isWritableFileSystem(s) = "undefined"

\* a read-only scheme registered again after a disposal, beside an unregistered scheme
C1_Witness ==
  /\ disposed # {}
  /\ \E h \in handles : Current(h) /\ h.readonly /\ h.reg > 1
                        /\ isWritableFileSystem(h.scheme) = "false"
  /\ \E s \in Schemes : isWritableFileSystem(s) = "undefined"

\* C2: a registration is in the registry exactly until its own disposal handle
\* is invoked: a handle removes the entry its registration created and nothing
\* else, also when invoked again after another registration of the same scheme.
C2_DisposeRemovesOnlyOwnEntry ==
  \A h \in handles : Current(h) <=> h.reg \notin disposed

\* C3: registerProvider for a scheme that has a registration throws a plain
\* Error (no FileSystemError), returns no handle and leaves the registry, and so
\* the existing registration's backend and read-only flag, unchanged.
C3_DuplicateRegistrationRejected ==
  [][(started' = started + 1 /\ calls' = calls /\ ret'.scheme \in DOMAIN fsProvider)
       => /\ ret'.error.cls = "Error"
          /\ ret'.handle = NoHandle
          /\ fsProvider' = fsProvider
          /\ handles' = handles]_vars

\* a registration was rejected and the scheme's earlier registration is still there
C3_Witness ==
  /\ ret.op = "register" /\ ret.error.cls = "Error"
  /\ ret.scheme \in DOMAIN fsProvider
  /\ \E h \in handles : h.scheme = ret.scheme /\ Current(h)

\* C4: a writeFile on a scheme registered read-only fails with
\* FileSystemError(NoPermissions) and writes the bytes nowhere.
C4_ReadonlyWriteRejected ==
  \A c \in WriteCalls :
    (ViaReadonly(c) /\ Finished(c)) =>
      /\ calls[c].pc = "failed"
      /\ calls[c].result.error.cls = "FileSystemError"
      /\ calls[c].result.error.code = "NoPermissions"
      /\ At(c, "writeFile") \cup At(c, "fs.writeFile") = {}

\* C5: a writeFile on a scheme registered read-only invokes neither writeFile
\* nor createDirectory of the backend.
C5_ReadonlyNeverReachesBackend ==
  \A c \in WriteCalls :
    ViaReadonly(c) =>
      \A k \in OnProvider(c) : calls[c].log[k].fn \notin {"writeFile", "createDirectory"}

\* a write on a read-only scheme ran to its end
C5_Witness ==
  \E c \in WriteCalls : ViaReadonly(c) /\ Finished(c) /\ calls[c].log # <<>>

\* C6: readFile, writeFile and stat on a scheme without registration are served
\* from the local disk; the missing registration alone does not make them fail.
C6_UnregisteredServedFromDisk ==
  \A c \in DOMAIN calls :
    (Unregistered(c) /\ Finished(c)) =>
      /\ calls[c].log # <<>>
      /\ \A k \in DOMAIN calls[c].log : calls[c].log[k].on = "disk"

\* the walk's stats of call c that the backend answered with FileNotFound
MissingAt(c) ==
  {k \in At(c, "stat") : calls[c].log[k].error.name # <<>>
                         /\ Head(calls[c].log[k].error.name) = "EntryNotFound"}

\* createDirectory invocation k of call c is for the ancestor that stat m found missing
Creates(c, k, m) == calls[c].log[k].path = calls[c].log[m].path \o <<"/">>

\* C7: a writeFile through a writable provider creates the ancestors its walk
\* found missing from the one closest to the root down to the one closest to
\* the target, each exactly once, and invokes the backend's writeFile only
\* after every one of these createDirectory calls has returned.
C7_CreatesTopDownThenWrites ==
  \A c \in WriteCalls :
    ViaWritable(c) =>
      /\ \A k \in At(c, "createDirectory") : \E m \in MissingAt(c) : Creates(c, k, m)
      /\ \A k \in At(c, "createDirectory"), m \in MissingAt(c) :
           Len(calls[c].log[m].path) + 1 < Len(calls[c].log[k].path)
             => \E j \in At(c, "createDirectory") : j < k /\ Creates(c, j, m)
      /\ \A j, k \in At(c, "createDirectory") :
           j # k => calls[c].log[j].path # calls[c].log[k].path
      /\ \A w \in At(c, "writeFile") :
           /\ \A k \in At(c, "createDirectory") \cup At(c, "stat") : k < w
           /\ \A m \in MissingAt(c) : \E k \in At(c, "createDirectory") : Creates(c, k, m)

\* two missing ancestors were created, then the file was written
C7_Witness ==
  \E c \in WriteCalls :
    /\ ViaWritable(c) /\ calls[c].pc = "done"
    /\ Cardinality(MissingAt(c)) = 2
    /\ Cardinality({k \in At(c, "createDirectory") : calls[c].log[k].error = NoError}) = 2

\* no proper ancestor of the target of call c is a plain file in the call's backend
NoFileAncestor(c) ==
  \A k \in Prefixes(Segs(calls[c].uri.path)) \ {Segs(calls[c].uri.path)} :
    store[calls[c].provider.impl][k].kind # "file"

\* C8: concurrent writeFile calls through one writable provider whose targets
\* share missing ancestors never fail in their directory creation: a FileExists
\* from createDirectory (another writer was first) is success, and a call that
\* fails has failed in the backend's writeFile itself.
C8_ConcurrentCreationTolerated ==
  \A c \in WriteCalls :
    (ViaWritable(c) /\ NoFileAncestor(c)) =>
      /\ calls[c].pc = "failed" => At(c, "writeFile") # {}
      /\ calls[c].pc = "done" => At(c, "writeFile") # {}

\* two writers raced: one found the directory created by the other, and both wrote
C8_Witness ==
  \E c, d \in WriteCalls :
    /\ c # d /\ ViaWritable(c) /\ ViaWritable(d)
    /\ calls[c].provider = calls[d].provider
    /\ calls[c].pc = "done" /\ calls[d].pc = "done"
    /\ \E k \in At(c, "createDirectory") :
         calls[c].log[k].error.name = <<"EntryExists", "(FileSystemError)">>

\* C9: when the first existing ancestor the walk finds is a plain file, writeFile
\* fails with FileSystemError code FileExists (not FileNotADirectory), creates
\* no directory and does not invoke the backend's writeFile.
C9_FileAncestorFailsFileExists ==
  \A c \in WriteCalls :
    ViaWritable(c) =>
      \A k \in At(c, "stat") :
        (calls[c].log[k].error = NoError /\ calls[c].log[k].type = FileTypeFile) =>
          /\ calls[c].pc = "failed"
          /\ calls[c].result.error.cls = "FileSystemError"
          /\ calls[c].result.error.code = "FileExists"
          /\ At(c, "createDirectory") = {}
          /\ At(c, "writeFile") = {}

\* the walk recorded a missing ancestor, then met a plain file
C9_Witness ==
  \E c \in WriteCalls :
    /\ ViaWritable(c) /\ calls[c].pc = "failed"
    /\ MissingAt(c) # {}
    /\ \E k \in At(c, "stat") : calls[c].log[k].type = FileTypeFile

\* C10: a readFile begun after a writeFile of the same identifier completed,
\* served by the same registration (read-only or not) with no other write
\* completed before it returns, returns the bytes written.
C10_RoundTrip ==
  \A c \in ReadCalls :
    (Finished(c) /\ calls[c].seen.uri = calls[c].uri
       /\ calls[c].seen.reg = calls[c].provider.reg) =>
      /\ calls[c].pc = "done"
      /\ calls[c].result.bytes = calls[c].seen.bytes

\* C11: every FileSystemError built by a static constructor or by the plain
\* constructor with a code is labelled "<Code> (FileSystemError)", and the
\* token before the first space of the label equals the error's code field.
C11_LabelRecoversCode ==
  thrown.cls = "FileSystemError" =>
    /\ Len(thrown.name) = 2
    /\ thrown.name[2] = "(FileSystemError)"
    /\ NameHead(thrown) = thrown.code

\* the steps a dispose() invocation has to attempt: the five services, the
\* subscriptions the context held, the provider registrations the bundle made
Listed(d) ==
  <<"configuration", "languageFeatures", "commands", "workspace", "window">>
    \o d.subscriptions
    \o (IF d.registrations # <<>> THEN <<"http", "https">> ELSE <<>>)

\* C12: dispose() attempts every disposal step, also after a step has thrown.
C12_EveryStepAttempted ==
  \A i \in DOMAIN disposals :
    \A k \in DOMAIN Listed(disposals[i]) :
      \E j \in DOMAIN disposals[i].performed :
        disposals[i].performed[j] = Listed(disposals[i])[k]

\* C13: when no step fails, dispose() performs configuration, language
\* features, commands, workspace, window, then the context's subscriptions in
\* the order they were pushed, then the provider registrations, each once.
C13_DisposalOrder ==
  \A i \in DOMAIN disposals :
    disposals[i].raised = "none" => disposals[i].performed = Listed(disposals[i])

\* a browser-mode bundle with two subscriptions was disposed without a failure
C13_Witness ==
  \E i \in DOMAIN disposals :
    /\ disposals[i].raised = "none"
    /\ Len(disposals[i].subscriptions) = 2
    /\ disposals[i].registrations # <<>>
    /\ Len(disposals[i].performed) = 9

\* the number of dispose() invocations of bundle b that performed step n
Performances(b, n) ==
  Cardinality({<<i, j>> \in (DOMAIN disposals) \X (1..9) :
                 /\ disposals[i].bundle = b
                 /\ j \in DOMAIN disposals[i].performed
                 /\ disposals[i].performed[j] = n})

\* C14: each of two bundles is disposed by its own dispose() only: an object
\* of a bundle has received exactly the dispose() calls that bundle's own
\* dispose() performed on it, and a provider registration stays in its router
\* until its own bundle's dispose() reaches it.
C14_BundlesIndependent ==
  \A b \in DOMAIN bundles :
    /\ \A n \in StepNames : bundles[b].attempts[n] = Performances(b, n)
    /\ \A k \in DOMAIN bundles[b].FsProviderDisposables :
         LET h == bundles[b].FsProviderDisposables[k]
         IN Performances(b, h.scheme) = 0 =>
              /\ h.scheme \in DOMAIN bundles[b].router
              /\ bundles[b].router[h.scheme].reg = h.reg

\* two browser-mode bundles with subscriptions; the first one built was
\* disposed completely, after the second was built, and the second is untouched
C14_Witness ==
  /\ Len(bundles) = 2
  /\ \A b \in DOMAIN bundles :
       bundles[b].mode = "browser" /\ bundles[b].subscriptions # <<>>
  /\ \E i \in DOMAIN disposals :
       disposals[i].bundle = 1 /\ disposals[i].raised = "none"
  /\ \A n \in StepNames : bundles[2].attempts[n] = 0
  /\ DOMAIN bundles[2].router = {"http", "https"}
  /\ bundles[1].router = <<>>

\* C15: a browser-mode bundle's router holds exactly the registrations http
\* and https, both read-only, so that isWritable is false for each and a
\* writeFile on either does not take the provider branch; a desktop-mode
\* bundle's router holds neither.
C15_FetchBackendsReadonly ==
  \A b \in DOMAIN bundles :
    (\A n \in StepNames : bundles[b].attempts[n] = 0) =>
      IF bundles[b].mode = "browser"
      THEN /\ DOMAIN bundles[b].router = {"http", "https"}
           /\ \A sch \in {"http", "https"} :
                /\ bundles[b].router[sch].isReadonly
                /\ ~WritesThroughProvider(bundles[b].router[sch])
      ELSE DOMAIN bundles[b].router = {}

StatCalls == {c \in DOMAIN calls : calls[c].op = "stat"}

\* C16: stat on a scheme without registration is answered by the symlink-aware
\* local stat: the call reaches lstat on the local disk and returns the type of
\* the entry it finds (File, Directory or Unknown, with the SymbolicLink bit
\* only for a link), failing only with the error of the local stat itself.
C16_UnregisteredStatIsLocal ==
  \A c \in StatCalls :
    (Unregistered(c) /\ Finished(c)) =>
      /\ At(c, "fs.lstat") # {}
      /\ \A k \in At(c, "fs.lstat") :
           IF calls[c].log[k].error = NoError
           THEN /\ calls[c].pc = "done"
                /\ calls[c].result.type = calls[c].log[k].type
                /\ calls[c].result.type \in
                     {FileTypeFile, FileTypeDirectory, FileTypeUnknown}
           ELSE /\ calls[c].pc = "failed"
                /\ calls[c].result.error = calls[c].log[k].error

\* C17: the upward walk of a writeFile ends after at most one stat per
\* ancestor between the target's parent and the root, whatever the backend
\* answers, also when it answers FileNotFound for every ancestor and the root.
C17_WalkStatsEachAncestorOnce ==
  \A c \in WriteCalls :
    ViaWritable(c) =>
      /\ Cardinality(At(c, "stat")) <= Len(Segs(calls[c].uri.path))
      /\ \A j, k \in At(c, "stat") :
           j # k => calls[c].log[j].path # calls[c].log[k].path

\* the error says FileNotFound: by its code (the code field the class gives
\* FileNotFound errors, or the FileSystemProviderErrorCode value) or by the
\* first token of its label
DenotesFileNotFound(err) ==
  \/ err.code \in {"FileNotFound", "EntryNotFound"}
  \/ (err.name # <<>> /\ Head(err.name) = "EntryNotFound")

\* C18: a stat failure of the walk whose code is FileNotFound, or whose label
\* starts with the FileNotFound token, makes the walk go on with the ancestor
\* recorded as missing; any other stat failure ends the writeFile with that
\* same error, with no createDirectory and no writeFile invoked.
C18_StatFailureClassified ==
  \A c \in WriteCalls :
    ViaWritable(c) =>
      \A k \in At(c, "stat") :
        calls[c].log[k].error # NoError =>
          IF DenotesFileNotFound(calls[c].log[k].error)
          THEN ~(calls[c].pc = "failed" /\ calls[c].result.error = calls[c].log[k].error)
          ELSE /\ calls[c].pc = "failed"
               /\ calls[c].result.error = calls[c].log[k].error
               /\ At(c, "createDirectory") \cup At(c, "writeFile") = {}

\* the error says FileExists, by its code or by the first token of its label
DenotesFileExists(err) ==
  \/ err.code \in {"FileExists", "EntryExists"}
  \/ (err.name # <<>> /\ Head(err.name) = "EntryExists")

\* C19: when a createDirectory of the creation phase fails with an error other
\* than FileExists, the writeFile fails with that error and invokes nothing
\* after it: no lower ancestor is created and the backend's writeFile is not
\* called.
C19_CreationFailurePropagates ==
  \A c \in WriteCalls :
    ViaWritable(c) =>
      \A k \in At(c, "createDirectory") :
        (calls[c].log[k].error # NoError /\ ~DenotesFileExists(calls[c].log[k].error)) =>
          /\ calls[c].pc = "failed"
          /\ calls[c].result.error = calls[c].log[k].error
          /\ k = Len(calls[c].log)

\* the topmost of two missing ancestors could not be created: the write
\* failed with the backend's NoPermissions while the lower one was still to do
C19_Witness ==
  \E c \in WriteCalls :
    /\ ViaWritable(c) /\ calls[c].pc = "failed"
    /\ Len(calls[c].toCreate) = 2 /\ calls[c].i = 2
    /\ calls[c].result.error.code = "NoPermissions"
    /\ Cardinality(At(c, "createDirectory")) = 1

\* C20: a call that began while its scheme was registered makes every one of
\* its backend invocations on the backend of that registration, also after
\* the registration was disposed or replaced while the call was suspended,
\* and fails only with what that backend (or mkdirp's own file-ancestor test)
\* raised; a call reports the missing registration only if it began without one.
C20_InFlightCallKeepsBackend ==
  \A c \in DOMAIN calls :
    IF calls[c].provider.reg # 0
    THEN /\ \A k \in OnProvider(c) : calls[c].log[k].on = calls[c].provider.impl
         /\ calls[c].pc = "failed" =>
              /\ calls[c].log # <<>>
              /\ calls[c].result.error # UnsupportedScheme
              /\ LET last == calls[c].log[Len(calls[c].log)]
                 IN \/ calls[c].result.error = last.error
                    \/ /\ last.fn = "stat" /\ last.error = NoError
                       /\ calls[c].result.error.code = "FileExists"
    ELSE calls[c].log = <<>>

\* a write began on a registration that was disposed and replaced by another
\* backend while the write was suspended: it went on, created a directory and
\* wrote on the backend it began with
C20_Witness ==
  \E c \in WriteCalls :
    /\ ViaWritable(c) /\ calls[c].pc = "done"
    /\ Has(calls[c].uri.scheme)
    /\ Get(calls[c].uri.scheme).impl # calls[c].provider.impl
    /\ calls[c].orphaned
    /\ \E k \in At(c, "createDirectory") : calls[c].log[k].error = NoError
    /\ store[calls[c].provider.impl][Segs(calls[c].uri.path)] = FileEntry(calls[c].content)


-----------------------------------------------------------------------------
(* Local path resolution on its own *)

MaxResolved == 2

ResolvedSchemes == {"file", "mem", "ext"}
ResolvedAuthorities == {<<>>, <<"typescript">>}
ResolvedPaths ==
  { <<>>,
    <<"typescript">>,
    <<"/", "typescript">>,
    <<"/", "lib.", "x", ".d.ts">>,
    <<"/", "typescript", "/", "lib.", "x", ".d.ts">>,
    <<"/", "ext", "/", "typescript", "/", "lib.", "x", ".d.ts">>,
    <<"/", "ext", "/", "typescript", "/", "lib.", "x">> }

\* the identifiers URI.from accepts over these components
Identifiers ==
  { u \in { UriFrom(Uri(scheme, authority, <<>>), path) :
              scheme \in ResolvedSchemes, authority \in ResolvedAuthorities,
              path \in ResolvedPaths } : UriIsValid(u) }

\* fromResource(uri), the string it returns
Resolve(uri) ==
  /\ Cardinality(resolved) < MaxResolved
  /\ resolved' = resolved \cup {[uri |-> uri, path |-> Rendered(fromResource(uri))]}
  /\ UNCHANGED <<routerVars, lifecycleVars>>

NextResolution == \E uri \in Identifiers : Resolve(uri)

SpecResolution == Init /\ [][NextResolution]_vars

-----------------------------------------------------------------------------
(* Claims, continued *)

\* an initializeShimServices call was made in this step
InitializeStep == built'.calls = built.calls + 1

\* a bundle's dispose() was called in this step
DisposeStep == Len(disposals') = Len(disposals) + 1

\* an initialize call disposes nothing and leaves the earlier bundles as they were
InitializeLeavesBundles ==
  InitializeStep =>
    (disposals' = disposals /\ \A b \in DOMAIN bundles : bundles'[b] = bundles[b])

\* a dispose() call changes no handle
DisposeLeavesHandles == DisposeStep => current' = current

\* C21: at every moment each process-wide handle (languages, commands,
\* workspace, window, env, chat, FileSystemError) holds the object built by the
\* most recent initializeShimServices call that returned, all of them from that
\* one call; an initialize call disposes nothing of the bundles returned before
\* it, and a dispose() call changes no handle.
C21_HandlesFollowLatestInitialize ==
  /\ [](\A h \in HandleNames : current[h] = Len(bundles))
  /\ [][InitializeLeavesBundles /\ DisposeLeavesHandles]_vars

\* a second call returned after the first bundle was disposed of, and the
\* second bundle is untouched
C21_Witness ==
  /\ Len(bundles) = 2
  /\ \A h \in HandleNames : current[h] = 2
  /\ \E i \in DOMAIN disposals : disposals[i].bundle = 1
  /\ bundles[2].attempts = Constructed(bundles[2].mode).attempts

\* C22: two identifiers that differ in scheme, authority or path never resolve
\* to the same local path, under the generic mapping /{scheme}/{authority}{path}
\* (an empty authority included) and when the bundled-asset rule resolves one
\* of them to its path verbatim.
C22_ResolutionCollisionFree ==
  \A r1 \in resolved, r2 \in resolved : r1.uri # r2.uri => r1.path # r2.path

\* C23: when a service constructor or a provider registration inside
\* initializeShimServices throws, the call returns no bundle and every
\* process-wide handle keeps the value it had before the call.
C23_FailedInitializeChangesNothing ==
  [][(InitializeStep /\ built'.raised # "none") =>
       /\ bundles' = bundles
       /\ current' = current]_vars

\* an initialize call threw after an earlier one had returned a bundle
C23_Witness ==
  /\ built.raised # "none"
  /\ Len(bundles) = 1
  /\ \A h \in HandleNames : current[h] = 1


\* the entry invocation k of call c addressed, as the backend holds it now
\* (entries are only added, so its kind is the kind it had when it was found)
EntryNow(c, k) == Lookup(store[calls[c].log[k].on], calls[c].log[k].path)

\* createDirectory invocation k of call c answered FileExists and the call went on
AcceptedFileExists(c, k) ==
  /\ IsFileExists(calls[c].log[k].error)
  /\ calls[c].pc # "failed" \/ k < Len(calls[c].log)

\* C24: when the directory-creation phase of a writeFile has completed without
\* error, every ancestor it recorded as needing creation is a directory in the
\* backend, under every interleaving with writers that only add entries; and a
\* FileExists from createDirectory is never accepted for an ancestor that
\* exists as a plain file.
C24_CreatedAncestorsAreDirectories ==
  \A c \in WriteCalls :
    ViaWritable(c) =>
      /\ calls[c].pc = "write" =>
           \A k \in At(c, "createDirectory") : EntryNow(c, k).kind = "dir"
      /\ \A k \in At(c, "createDirectory") :
           AcceptedFileExists(c, k) => EntryNow(c, k).kind = "dir"

====
